---- MODULE Spec2Model ----
(***************************************************************************)
(* faam-datautils: file resolution of a DataAccessor (faamda/wrapper/      *)
(* accessors/accessor.py), of the legacy FAAMFlight (faam.py) and the      *)
(* catalogue scan of FAAM (faamda/wrapper/wrapper.py).                     *)
(*                                                                         *)
(* Python values are encoded as integers: None is -1, the string 'full'    *)
(* is -2, every other integer stands for itself.  File name extensions and *)
(* hooks are strings.                                                      *)
(***************************************************************************)
EXTENDS Integers, Sequences, FiniteSets, TLC

\* ---------------------------------------------------------------- bounds
MaxFiles    == 2      \* add_file calls on one accessor
MaxFlightFiles == 3   \* files one legacy FAAMFlight holds
MaxVersion  == 1      \* versions in file names are 0..MaxVersion
MaxRevision == 1      \* revisions in file names are 0..MaxRevision
MaxFreq     == 2      \* frequencies in file names are 1..MaxFreq
MaxEvents   == 2      \* rows of a flight summary file

\* Directories a file of a given name is found in.
Dirs == {"d1", "d2"}

\* ------------------------------------------------------- program constants
FULL_FREQ == 101
None      == -1
full      == -2
DefaultWithin == 60   \* seconds, the default of within

\* ------------------------------------------------------------------ state
VARIABLES
    hook,        \* class of the accessor: its regex and fileattrs
    _files,      \* DataAccessor._files
    _version,    \* DataAccessor._version
    _revision,   \* DataAccessor._revision
    _freq,       \* DataAccessor._freq
    _ext,        \* CoreFltSumAccessor._ext
    explicit,    \* a pin was assigned by a caller since construction
    flt_files,   \* faam.FAAMFlight.files, as a function of (v, r, f)
    flt_version, \* faam.FAAMFlight._version
    flt_revision,\* faam.FAAMFlight._revision
    flt_freq,    \* faam.FAAMFlight._freq
    flights,     \* FAAM.flights: key -> FAAMFlight
    scan,        \* the scan of FAAM._load: "scanning" or "raised"
    loaded,      \* files the scan has come to
    registry,    \* FAAM._accessors: the hooks, in registration order
    df,          \* the table a detector reads: one row a second
    arg,         \* the arguments of the last call
    op,          \* the last call made
    err,         \* how the last call ended
    ret          \* what the last call returned

accvars == <<hook, _files, _version, _revision, _freq, _ext, explicit>>
fltvars == <<flt_files, flt_version, flt_revision, flt_freq>>
catvars == <<flights, scan, loaded, registry>>
detvars == <<df>>
vars    == <<hook, _files, _version, _revision, _freq, _ext, explicit,
             flt_files, flt_version, flt_revision, flt_freq,
             flights, scan, loaded, registry, df, arg, op, err, ret>>

\* ------------------------------------------------------- outcome of a call
NoError == [kind |-> "none", carried |-> <<>>, attempted |-> <<>>]

Raise(kind, carried, attempted) ==
    [kind |-> kind, carried |-> carried, attempted |-> attempted]

NoFile == <<>>

\* ------------------------------------------------------------ Python max()
\* max() of a list: ValueError on the empty list, the element itself for a
\* list of one, TypeError as soon as two elements cannot be ordered (None
\* with anything, a string with an integer).
SeqRange(s) == {s[i] : i \in 1..Len(s)}

SetMax(S) == CHOOSE m \in S : \A n \in S : n <= m

PyMax(s) ==
    IF Len(s) = 0 THEN [ok |-> FALSE, val |-> None]
    ELSE IF Len(s) = 1 THEN [ok |-> TRUE, val |-> s[1]]
    ELSE IF \A i \in 1..Len(s) : s[i] >= 0
         THEN [ok |-> TRUE, val |-> SetMax(SeqRange(s))]
    ELSE IF \A i \in 1..Len(s) : s[i] = full
         THEN [ok |-> TRUE, val |-> full]
    ELSE [ok |-> FALSE, val |-> None]

\* ---------------------------------------------------------------- FAAMFile
\* A FAAMFile as built from a match of the accessor's regex: a group the
\* regex lacks reads None, a missing frequency reads FULL_FREQ.
FAAMFile(dir, version, revision, freqdigits, ext) ==
    [dir |-> dir, _version |-> version, _revision |-> revision,
     _freq |-> IF freqdigits = None THEN FULL_FREQ ELSE freqdigits,
     _ext |-> ext]

FileFreq(x) == IF x._freq = FULL_FREQ THEN full ELSE x._freq

Files(h) ==
    IF h = "core"
    THEN {FAAMFile(d, v, r, f, "None") :
              d \in Dirs, v \in 0..MaxVersion, r \in 0..MaxRevision,
              f \in (1..MaxFreq) \cup {None}}
    ELSE {FAAMFile(d, None, r, None, e) :
              d \in Dirs, r \in 0..MaxRevision, e \in {"csv", "txt"}}

fileattrs(h) ==
    IF h = "fltsum" THEN {"revision", "ext"} ELSE {"version", "revision", "freq"}

\* ------------------------------------------------------------ DataAccessor
\* The accessor as a value: the operators below are its methods.
Self == [hook |-> hook, _files |-> _files, _version |-> _version,
         _revision |-> _revision, _freq |-> _freq, _ext |-> _ext]

Freq(a) == IF a._freq = FULL_FREQ THEN full ELSE a._freq

Skip(val) == val = None

\* _filtered_files with the keyword arguments kw, a set of attribute names
\* passed as None (the only way the code calls it).
FilteredFiles(a, kw) ==
    LET on(attr) == attr \in fileattrs(a.hook) /\ attr \notin kw
        keep(x) ==
            /\ (on("version") /\ ~Skip(a._version))
                   => x._version = a._version
            /\ (on("revision") /\ ~Skip(a._revision))
                   => x._revision = a._revision
            /\ (on("freq") /\ ~Skip(Freq(a)))
                   => FileFreq(x) = Freq(a)
            /\ (on("ext") /\ a._ext # "None")
                   => x._ext = a._ext
    IN  SelectSeq(a._files, keep)

filtered_files(a) == FilteredFiles(a, {})

\* [i.version for i in s], [i.revision for i in s], [i.freq for i in s]
VersionsOf(s)  == [i \in 1..Len(s) |-> s[i]._version]
RevisionsOf(s) == [i \in 1..Len(s) |-> s[i]._revision]
FreqsOf(s)     == [i \in 1..Len(s) |-> FileFreq(s[i])]

\* AutosetRevision without the restriction to the pinned version.
AutosetRevisionAnyVersion(a) ==
    LET m == PyMax(RevisionsOf(FilteredFiles(a, {"version", "revision",
                                               "freq"})))
    IN  IF m.ok THEN [a EXCEPT !._revision = m.val] ELSE a

AutosetRevision(a) ==
    LET m == PyMax(RevisionsOf(FilteredFiles(a, {"revision", "freq"})))
    IN  IF m.ok THEN [a EXCEPT !._revision = m.val] ELSE a

\* As AutosetVersion, a version pin that is set left alone.
AutosetVersionIfUnset(a) ==
    LET m == PyMax(VersionsOf(a._files))
    IN  IF m.ok /\ a._version = None
        THEN AutosetRevision([a EXCEPT !._version = m.val])
        ELSE a

AutosetVersion(a) ==
    LET m == PyMax(VersionsOf(a._files))
    IN  IF m.ok THEN AutosetRevision([a EXCEPT !._version = m.val]) ELSE a

\* As AutosetFreq, over the files of the version and revision pinned.
AutosetFreqAnyFreq(a) ==
    LET m == PyMax(FreqsOf(FilteredFiles(a, {"freq"})))
    IN  IF m.ok THEN [a EXCEPT !._freq = m.val] ELSE a

AutosetFreq(a) ==
    LET m == PyMax(FreqsOf(filtered_files(a)))
    IN  IF m.ok THEN [a EXCEPT !._freq = m.val] ELSE a

\* As AutosetExt, the extension of the file added last pinned.
AutosetExtLast(a) ==
    IF a.hook = "fltsum"
    THEN [a EXCEPT !._ext = a._files[Len(a._files)]._ext]
    ELSE a

AutosetExt(a) ==
    IF a.hook = "fltsum"
    THEN [a EXCEPT !._ext = IF \E i \in 1..Len(a._files) :
                                   a._files[i]._ext = "csv"
                            THEN "csv" ELSE "txt"]
    ELSE a

AutosetFile(a) == AutosetFreq(AutosetRevision(AutosetVersion(AutosetExt(a))))

\* The file property: the first of the filtered files, IndexError if none.
FileOf(a) ==
    LET fs == filtered_files(a)
    IN  IF Len(fs) = 0
        THEN [err |-> Raise("IndexError", <<>>,
                            <<a._version, a._revision, Freq(a)>>),
              ret |-> NoFile]
        ELSE [err |-> NoError, ret |-> <<fs[1]>>]

Commit(a) ==
    /\ _files' = a._files
    /\ _version' = a._version
    /\ _revision' = a._revision
    /\ _freq' = a._freq
    /\ _ext' = a._ext
    /\ hook' = a.hook

\* --------------------------------------------------------------- registry
\* The hooks each module of accessors registers, in the order of its
\* classes; the modules are imported in some order.
ModuleHooks ==
    [core |-> <<"core", "fltsum">>, corecloud |-> <<"corecloud">>,
     corecloudphysics |-> <<"ccp">>]

Modules == {"core", "corecloud", "corecloudphysics"}

Registrations ==
    {ModuleHooks[p[1]] \o ModuleHooks[p[2]] \o ModuleHooks[p[3]] :
         p \in {q \in [1..3 -> Modules] :
                    \A i, j \in 1..3 : q[i] = q[j] => i = j}}

reg_accessors == <<"core", "fltsum", "corecloud", "ccp">>

\* ----------------------------------------------------------------- actions
InitState ==
    /\ _files = <<>>
    /\ _version = None
    /\ _revision = None
    /\ _freq = None
    /\ _ext = "None"
    /\ explicit = FALSE
    /\ flt_files = <<>>
    /\ flt_version = None
    /\ flt_revision = None
    /\ flt_freq = None
    /\ flights = <<>>
    /\ scan = "scanning"
    /\ loaded = 0
    /\ arg = <<>>
    /\ op = "init"
    /\ err = NoError
    /\ ret = NoFile

Init ==
    /\ hook \in {"core", "fltsum"}
    /\ registry = reg_accessors
    /\ df = <<>>
    /\ InitState

add_file ==
    /\ Len(_files) < MaxFiles
    /\ \E ffile \in Files(hook) :
          /\ Commit(AutosetFile([Self EXCEPT
                                    !._files = Append(_files, ffile)]))
          /\ arg' = <<ffile>>
    /\ op' = "add_file"
    /\ UNCHANGED <<fltvars, catvars, detvars>>
    /\ err' = NoError
    /\ ret' = NoFile
    /\ UNCHANGED explicit

VersionArgs  == (0..MaxVersion) \cup {None}
RevisionArgs == (0..MaxRevision) \cup {None}
FreqArgs     == (1..MaxFreq) \cup {None, full, FULL_FREQ}

\* As SetVersion, the revision never pinned anew.
SetVersionKeepRevision(a, version) ==
    LET a1 == [a EXCEPT !._version = version]
    IN  IF Len(filtered_files(a1)) = 0
        THEN [acc |-> a,
              err |-> Raise("ValueError", <<version>>,
                            <<version, a1._revision, Freq(a1)>>)]
        ELSE [acc |-> a1, err |-> NoError]

SetVersion(a, version) ==
    LET a1 == [a EXCEPT !._version = version]
        a2 == IF Len(filtered_files(a1)) = 0 THEN AutosetRevision(a1) ELSE a1
    IN  IF Len(filtered_files(a2)) = 0
        THEN [acc |-> [a2 EXCEPT !._version = a._version],
              err |-> Raise("ValueError", <<version>>,
                            <<version, a2._revision, Freq(a2)>>)]
        ELSE [acc |-> a2, err |-> NoError]

set_version ==
    /\ \E version \in VersionArgs :
          LET res == SetVersion(Self, version)
          IN  Commit(res.acc) /\ err' = res.err /\ arg' = <<version>>
    /\ op' = "set_version"
    /\ UNCHANGED <<fltvars, catvars, detvars>>
    /\ explicit' = TRUE
    /\ ret' = NoFile

SetRevision(a, revision) ==
    LET a1 == [a EXCEPT !._revision = revision]
    IN  IF Len(filtered_files(a1)) = 0
        THEN [acc |-> a,
              err |-> Raise("ValueError", <<revision, a._version>>,
                            <<a._version, revision, Freq(a)>>)]
        ELSE [acc |-> a1, err |-> NoError]

set_revision ==
    /\ \E revision \in RevisionArgs :
          LET res == SetRevision(Self, revision)
          IN  Commit(res.acc) /\ err' = res.err /\ arg' = <<revision>>
    /\ op' = "set_revision"
    /\ UNCHANGED <<fltvars, catvars, detvars>>
    /\ explicit' = TRUE
    /\ ret' = NoFile

SetFreq(a, freq) ==
    IF freq = None
    THEN [acc |-> [a EXCEPT !._freq = FULL_FREQ], err |-> NoError]
    ELSE [acc |-> [a EXCEPT !._freq = freq], err |-> NoError]

set_freq ==
    /\ \E freq \in FreqArgs :
          LET res == SetFreq(Self, freq)
          IN  Commit(res.acc) /\ err' = res.err /\ arg' = <<freq>>
    /\ op' = "set_freq"
    /\ UNCHANGED <<fltvars, catvars, detvars>>
    /\ explicit' = TRUE
    /\ ret' = NoFile

\* As file, with the file returned taken out of the accessor.
file_taking ==
    /\ LET res == FileOf(Self)
       IN  err' = res.err /\ ret' = res.ret
    /\ op' = "file"
    /\ arg' = <<>>
    /\ _files' = SelectSeq(_files, LAMBDA x : <<x>> # FileOf(Self).ret)
    /\ UNCHANGED <<hook, _version, _revision, _freq, _ext, explicit,
                   fltvars, catvars, detvars>>

file ==
    /\ LET res == FileOf(Self)
       IN  err' = res.err /\ ret' = res.ret
    /\ op' = "file"
    /\ arg' = <<>>
    /\ UNCHANGED <<accvars, fltvars, catvars, detvars>>

Next ==
    \/ add_file
    \/ set_version
    \/ set_revision
    \/ set_freq
    \/ file

Spec == Init /\ [][Next]_vars

\* The accessor as the catalogue leaves it: files added, no pin assigned.
NextAdd ==
    \/ add_file
    \/ file

SpecAdd == Init /\ [][NextAdd]_vars

\* An accessor that holds MaxFiles files, as add_file left it, is given
\* pins and one file more.
RECURSIVE AddedAll(_, _)
AddedAll(h, s) ==
    IF Len(s) = 0
    THEN [hook |-> h, _files |-> <<>>, _version |-> None, _revision |-> None,
          _freq |-> None, _ext |-> "None"]
    ELSE AutosetFile([AddedAll(h, SubSeq(s, 1, Len(s) - 1)) EXCEPT
                         !._files = Append(@, s[Len(s)])])

HeldFiles(h) ==
    {x \in Files(h) : x.dir = "d1" /\ x._freq \in {1, FULL_FREQ}}

add_file_pinned ==
    /\ Len(_files) < MaxFiles + 1
    /\ \E ffile \in HeldFiles(hook) :
          /\ Commit(AutosetFile([Self EXCEPT
                                    !._files = Append(_files, ffile)]))
          /\ arg' = <<ffile>>
    /\ op' = "add_file"
    /\ UNCHANGED <<fltvars, catvars, detvars>>
    /\ err' = NoError
    /\ ret' = NoFile
    /\ UNCHANGED explicit

NextPinned ==
    \/ add_file_pinned
    \/ set_version
    \/ set_revision
    \/ set_freq
    \/ file

InitPinned ==
    /\ hook \in {"core", "fltsum"}
    /\ registry = reg_accessors
    /\ df = <<>>
    /\ \E s \in [1..MaxFiles -> HeldFiles(hook)] :
          LET a == AddedAll(hook, s)
          IN  /\ _files = a._files
              /\ _version = a._version
              /\ _revision = a._revision
              /\ _freq = a._freq
              /\ _ext = a._ext
    /\ explicit = FALSE
    /\ flt_files = <<>>
    /\ flt_version = None
    /\ flt_revision = None
    /\ flt_freq = None
    /\ flights = <<>>
    /\ scan = "scanning"
    /\ loaded = 0
    /\ arg = <<>>
    /\ op = "init"
    /\ err = NoError
    /\ ret = NoFile

SpecPinned == InitPinned /\ [][NextPinned]_vars

\* ------------------------------------------------- faam.FAAMFlight (legacy)
\* files[v][r][f] of the nested dictionary is files[<<v, r, f>>] here; a
\* KeyError is a key outside the domain.
Has(fs, v, r, f) == <<v, r, f>> \in DOMAIN fs

Flight == [files |-> flt_files, _version |-> flt_version,
           _revision |-> flt_revision, _freq |-> flt_freq]

\* _vrf_error: the ValueError and the values its message is formatted from.
VrfError(fl, v, r, f, attempted) ==
    LET vv == IF v # None /\ v # 0 THEN v ELSE fl._version
        rr == IF r # None THEN r ELSE fl._revision
        ff == IF f # None THEN f ELSE fl._freq
    IN  Raise("ValueError", <<vv, rr, ff>>, attempted)

\* dict_merge(self.files, _dict): the entries already held are written over
\* the new one.
DictMerge(source, destination) ==
    [k \in DOMAIN source \cup DOMAIN destination |->
        IF k \in DOMAIN source THEN source[k] ELSE destination[k]]

SetMin(S) == CHOOSE m \in S : \A n \in S : m <= n

FlightAutosetFile(fl) ==
    LET v == SetMax({k[1] : k \in DOMAIN fl.files})
        r == SetMax({k[2] : k \in {j \in DOMAIN fl.files : j[1] = v}})
        f == SetMin({k[3] : k \in {j \in DOMAIN fl.files :
                                        j[1] = v /\ j[2] = r}})
    IN  [fl EXCEPT !._version = v, !._revision = r, !._freq = f]

\* A file name of CORE_REGEX and the directory it is in; no frequency
\* digits reads frequency 0.
FlightAddFile(fl, dir, v, r, freqdigits) ==
    LET f == IF freqdigits = None THEN 0 ELSE freqdigits
        _dict == (<<v, r, f>> :> <<dir, v, r, f>>)
    IN  FlightAutosetFile([fl EXCEPT !.files = DictMerge(fl.files, _dict)])

FlightSetVersion(fl, v) ==
    IF Has(fl.files, v, fl._revision, fl._freq)
    THEN [fl |-> [fl EXCEPT !._version = v], err |-> NoError]
    ELSE [fl |-> fl,
          err |-> VrfError(fl, v, None, None, <<v, fl._revision, fl._freq>>)]

FlightSetRevision(fl, r) ==
    IF Has(fl.files, fl._version, r, fl._freq)
    THEN [fl |-> [fl EXCEPT !._revision = r], err |-> NoError]
    ELSE [fl |-> fl,
          err |-> VrfError(fl, None, r, None, <<fl._version, r, fl._freq>>)]

FlightSetFreq(fl, f) ==
    IF Has(fl.files, fl._version, fl._revision, f)
    THEN [fl |-> [fl EXCEPT !._freq = f], err |-> NoError]
    ELSE [fl |-> fl,
          err |-> VrfError(fl, None, None, f, <<fl._version, fl._revision, f>>)]

\* set(v, r, f): an argument left out (None) is the current pin.  The three
\* setters run in turn and the first ValueError leaves the method.
FlightSet(fl, v0, r0, f0) ==
    LET v == IF v0 = None THEN fl._version ELSE v0
        r == IF r0 = None THEN fl._revision ELSE r0
        f == IF f0 = None THEN fl._freq ELSE f0
        s1 == FlightSetVersion(fl, v)
        s2 == FlightSetRevision(s1.fl, r)
        s3 == FlightSetFreq(s2.fl, f)
    IN  IF ~Has(fl.files, v, r, f)
        THEN [fl |-> fl, err |-> VrfError(fl, v, r, f, <<v, r, f>>)]
        ELSE IF s1.err.kind # "none" THEN s1
        ELSE IF s2.err.kind # "none" THEN s2
        ELSE s3

FlightCommit(fl) ==
    /\ flt_files' = fl.files
    /\ flt_version' = fl._version
    /\ flt_revision' = fl._revision
    /\ flt_freq' = fl._freq

FlightFreqs == 0..MaxFreq

flight_add_file ==
    /\ Cardinality(DOMAIN flt_files) < MaxFlightFiles
    /\ \E dir \in Dirs, v \in 0..MaxVersion, r \in 0..MaxRevision,
          fd \in (1..MaxFreq) \cup {None} :
          /\ FlightCommit(FlightAddFile(Flight, dir, v, r, fd))
          /\ arg' = <<dir, v, r, fd>>
    /\ op' = "flight_add_file"
    /\ err' = NoError
    /\ ret' = NoFile
    /\ UNCHANGED <<accvars, catvars, detvars>>

flight_set_version ==
    /\ \E v \in 0..MaxVersion :
          LET res == FlightSetVersion(Flight, v)
          IN  FlightCommit(res.fl) /\ err' = res.err /\ arg' = <<v>>
    /\ op' = "flight_set_version"
    /\ ret' = NoFile
    /\ UNCHANGED <<accvars, catvars, detvars>>

flight_set_revision ==
    /\ \E r \in 0..MaxRevision :
          LET res == FlightSetRevision(Flight, r)
          IN  FlightCommit(res.fl) /\ err' = res.err /\ arg' = <<r>>
    /\ op' = "flight_set_revision"
    /\ ret' = NoFile
    /\ UNCHANGED <<accvars, catvars, detvars>>

flight_set_freq ==
    /\ \E f \in FlightFreqs :
          LET res == FlightSetFreq(Flight, f)
          IN  FlightCommit(res.fl) /\ err' = res.err /\ arg' = <<f>>
    /\ op' = "flight_set_freq"
    /\ ret' = NoFile
    /\ UNCHANGED <<accvars, catvars, detvars>>

flight_set ==
    /\ \E v \in (0..MaxVersion) \cup {None}, r \in (0..MaxRevision) \cup {None},
          f \in FlightFreqs \cup {None} :
          LET res == FlightSet(Flight, v, r, f)
          IN  FlightCommit(res.fl) /\ err' = res.err /\ arg' = <<v, r, f>>
    /\ op' = "flight_set"
    /\ ret' = NoFile
    /\ UNCHANGED <<accvars, catvars, detvars>>

NextFlight ==
    \/ flight_add_file
    \/ flight_set_version
    \/ flight_set_revision
    \/ flight_set_freq
    \/ flight_set

InitFlight ==
    hook = "core" /\ registry = reg_accessors /\ df = <<>> /\ InitState

SpecFlight == InitFlight /\ [][NextFlight]_vars

\* ------------------------------------------------------ FAAM (the catalogue)
MaxScan == 2          \* files one scan comes to

\* A flight number is its characters; str.lower() maps each of them.
LowerChar(c) ==
    IF c = "B" THEN "b" ELSE IF c = "C" THEN "c" ELSE c

Lower(str) == [i \in DOMAIN str |-> LowerChar(str[i])]

FlightNums == {<<"c", "2", "2", "4">>, <<"C", "2", "2", "4">>,
               <<"b", "0", "0", "1">>}

\* The eight digits of a date, as year, month and day.
Dates == {[year |-> 2020, month |-> m, day |-> d] :
              m \in {2}, d \in {11, 30}}

DaysIn(year, month) ==
    IF month = 2
    THEN IF year % 4 = 0 /\ (year % 100 # 0 \/ year % 400 = 0) THEN 29 ELSE 28
    ELSE IF month \in {4, 6, 9, 11} THEN 30 ELSE 31

\* datetime.strptime(date, '%Y%m%d'): ValueError unless it is a date.
Strptime(date) ==
    IF /\ date.year >= 1
       /\ date.month \in 1..12
       /\ date.day \in 1..DaysIn(date.year, date.month)
    THEN [ok |-> TRUE, val |-> date]
    ELSE [ok |-> FALSE, val |-> date]

\* Base names of the files under the scanned paths, by the parts the
\* patterns tell apart.
BaseNames ==
    [prefix : {"core_faam", "flight-sum_faam", "core-cloud-phy_faam",
               "readme"},
     date : Dates, version : {0}, revision : {0, 1},
     flightnum : FlightNums, freqdigits : {None}, dir : {"d1"}]

\* rex.search(basename) for the pattern registered under h (compiled with
\* re.I: the letter of the flight number matches in either case).
Match(h, name) ==
    IF h = "core" THEN name.prefix = "core_faam"
    ELSE IF h = "fltsum" THEN name.prefix = "flight-sum_faam"
    ELSE name.prefix = "core-cloud-phy_faam"

\* FAAMFile(path, match.re): the groups of the pattern as the file's fields.
FAAMFileOf(h, name) ==
    IF h = "fltsum"
    THEN FAAMFile(name.dir, None, name.revision, None, "csv")
    ELSE FAAMFile(name.dir, name.version, name.revision, name.freqdigits,
                  "None")

NewAccessor(h) ==
    [hook |-> h, _files |-> <<>>, _version |-> None, _revision |-> None,
     _freq |-> None, _ext |-> "None"]

AccessorAddFile(a, ffile) ==
    AutosetFile([a EXCEPT !._files = Append(a._files, ffile)])

FAAMFlight(flightnum, date) ==
    [flightnum |-> flightnum, date |-> date, _accessors |-> <<>>]

\* As FAAMAddFile, with a new accessor made for every file.
FAAMAddFileFresh(fls, h, name) ==
    LET flightnum == name.flightnum
        date == Strptime(name.date)
        flight == IF flightnum \in DOMAIN fls THEN fls[flightnum]
                  ELSE FAAMFlight(flightnum, date.val)
        added == AccessorAddFile(NewAccessor(h), FAAMFileOf(h, name))
        flight2 == [flight EXCEPT
                      !._accessors = (h :> added) @@ flight._accessors]
    IN  IF ~date.ok
        THEN [flights |-> fls,
              err |-> Raise("ValueError", <<name.date>>, <<name.date>>)]
        ELSE [flights |-> (flightnum :> flight2) @@ fls, err |-> NoError]

\* FAAM.add_file: the flight of the match, its accessor for the hook, and
\* the file added to it.  strptime raises before anything is written.
FAAMAddFile(fls, h, name) ==
    LET flightnum == name.flightnum
        date == Strptime(name.date)
        flight == IF flightnum \in DOMAIN fls THEN fls[flightnum]
                  ELSE FAAMFlight(flightnum, date.val)
        accessor == IF h \in DOMAIN flight._accessors
                    THEN flight._accessors[h] ELSE NewAccessor(h)
        added == AccessorAddFile(accessor, FAAMFileOf(h, name))
        flight2 == [flight EXCEPT
                      !._accessors = (h :> added) @@ flight._accessors]
    IN  IF ~date.ok
        THEN [flights |-> fls,
              err |-> Raise("ValueError", <<name.date>>, <<name.date>>)]
        ELSE [flights |-> (flightnum :> flight2) @@ fls, err |-> NoError]

\* The places in the registration reg of the hooks whose pattern matches.
Hits(reg, name) == {i \in 1..Len(reg) : Match(reg[i], name)}

\* As LoadFile, with the last registered hook whose pattern matches.
LoadFileLast(reg, fls, name) ==
    IF Hits(reg, name) = {} THEN [flights |-> fls, err |-> NoError]
    ELSE FAAMAddFile(fls, reg[SetMax(Hits(reg, name))], name)

\* As LoadFile, with a file no pattern matches refused.
LoadFileStrict(reg, fls, name) ==
    IF Hits(reg, name) = {}
    THEN [flights |-> fls,
          err |-> Raise("ValueError", <<name.prefix>>, <<name.prefix>>)]
    ELSE FAAMAddFile(fls, reg[SetMin(Hits(reg, name))], name)

\* FAAM._load_file: the first registered hook whose pattern matches.
LoadFile(reg, fls, name) ==
    IF Hits(reg, name) = {} THEN [flights |-> fls, err |-> NoError]
    ELSE FAAMAddFile(fls, reg[SetMin(Hits(reg, name))], name)

load_file ==
    /\ scan = "scanning"
    /\ loaded < MaxScan
    /\ \E name \in BaseNames :
          LET res == LoadFile(registry, flights, name)
          IN  /\ flights' = res.flights
              /\ arg' = <<name>>
              /\ err' = res.err
              /\ scan' = IF res.err.kind = "none" THEN "scanning" ELSE "raised"
    /\ loaded' = loaded + 1
    /\ op' = "load_file"
    /\ ret' = NoFile
    /\ UNCHANGED <<accvars, fltvars, registry, detvars>>

\* FAAM.__getitem__
GetItem(fls, item) ==
    IF Lower(item) \in DOMAIN fls
    THEN [err |-> NoError, ret |-> <<fls[Lower(item)]>>]
    ELSE [err |-> Raise("KeyError", <<Lower(item)>>, <<item>>), ret |-> NoFile]

getitem ==
    /\ scan = "scanning"
    /\ \E item \in FlightNums :
          LET res == GetItem(flights, item)
          IN  err' = res.err /\ ret' = res.ret /\ arg' = <<item>>
    /\ op' = "getitem"
    /\ UNCHANGED <<accvars, fltvars, catvars, detvars>>

\* FAAMFlight.__getattr__: the accessor of the hook, AttributeError if the
\* flight has none.
GetAttr(flight, attr) ==
    IF attr \in DOMAIN flight._accessors
    THEN [err |-> NoError, ret |-> <<flight._accessors[attr]>>]
    ELSE [err |-> Raise("AttributeError", <<attr>>, <<attr>>), ret |-> NoFile]

getattr ==
    /\ scan = "scanning"
    /\ \E k \in DOMAIN flights, attr \in SeqRange(registry) :
          LET res == GetAttr(flights[k], attr)
          IN  err' = res.err /\ ret' = res.ret /\ arg' = <<k, attr>>
    /\ op' = "getattr"
    /\ UNCHANGED <<accvars, fltvars, catvars, detvars>>

NextCatalog ==
    \/ load_file
    \/ getitem
    \/ getattr

InitCatalog ==
    hook = "core" /\ registry \in Registrations /\ df = <<>> /\ InitState

SpecCatalog == InitCatalog /\ [][NextCatalog]_vars

\* ------------------------------------------------- CoreAccessor detectors
MaxRows      == 5     \* seconds of data in the table
MaxMinLength == 3     \* min_length is 1..MaxMinLength
MaxMaxLength == 4     \* max_length is None or 1..MaxMaxLength
rolling      == 2     \* the window of profiles (60 in the source), scaled
                      \* to tables of MaxRows rows
thresh       == 15    \* 0.15, in hundredths of the unit of pressure

\* What one second of data can be: level flight, the pressure one unit up,
\* pressure and roll disturbed, the aircraft on the ground.
Samples ==
    {[WOW_IND |-> 0, PS_RVSM |-> 0,  ROLL_GIN |-> 0],
     [WOW_IND |-> 0, PS_RVSM |-> 1,  ROLL_GIN |-> 0],
     [WOW_IND |-> 0, PS_RVSM |-> 10, ROLL_GIN |-> 10],
     [WOW_IND |-> 1, PS_RVSM |-> 0,  ROLL_GIN |-> 0]}

Frames == [1..MaxRows -> Samples]

\* self[[...]].asfreq('1S'): the rows, indexed by their second.
Asfreq1S(data) ==
    [i \in 1..Len(data) |->
        [t |-> i, WOW_IND |-> data[i].WOW_IND, PS_RVSM |-> data[i].PS_RVSM,
         ROLL_GIN |-> data[i].ROLL_GIN]]

RECURSIVE SumOver(_, _, _)
SumOver(x, lo, hi) ==
    IF lo > hi THEN 0
    ELSE IF lo = hi THEN x[lo]
    ELSE SumOver(x, lo, (lo + hi) \div 2)
             + SumOver(x, (lo + hi) \div 2 + 1, hi)

\* The rows of the window of rolling(w, center=True) at row i.
WinLo(i, w) == i + (w - 1) \div 2 - w + 1
WinHi(i, w) == i + (w - 1) \div 2

\* x.rolling(w, center=True).std() < lim, row by row: false where the
\* window is not whole (the deviation is NaN there).
RollingStdBelow(x, w, lim) ==
    LET xx == [j \in 1..Len(x) |-> x[j] * x[j]]
    IN  [i \in 1..Len(x) |->
            /\ w >= 2
            /\ WinLo(i, w) >= 1
            /\ WinHi(i, w) <= Len(x)
            /\ LET sum == SumOver(x, WinLo(i, w), WinHi(i, w))
                   squares == SumOver(xx, WinLo(i, w), WinHi(i, w))
               IN  w * squares - sum * sum < lim * lim * w * (w - 1)]

\* x.rolling(k).mean().rolling(w, center=True).apply(np.ptp) < lim, row by
\* row: false where a mean of the window is missing.
RollingPtpBelow(x, k, w, lim) ==
    [i \in 1..Len(x) |->
        /\ WinLo(i, w) >= k
        /\ WinHi(i, w) <= Len(x)
        /\ LET sums == {SumOver(x, j - k + 1, j) :
                           j \in WinLo(i, w)..WinHi(i, w)}
           IN  SetMax(sums) - SetMin(sums) < lim * k]

\* As RunEnd, a run ending where the flag is 1.
RunEndAtOne(flag, i) ==
    SetMin({j \in i..Len(flag) :
               j = Len(flag) \/ flag[j + 1] # flag[i] \/ flag[j] = 1})

\* The last row of the run of one flag that row i begins.
RunEnd(flag, i) ==
    SetMin({j \in i..Len(flag) : j = Len(flag) \/ flag[j + 1] # flag[i]})

\* (flag.diff() != 0).cumsum() and groupby: the maximal runs of rows of one
\* flag, as their first and last row, in order.
RECURSIVE GroupsFrom(_, _)
GroupsFrom(flag, lo) ==
    IF lo > Len(flag) THEN <<>>
    ELSE <<[lo |-> lo, hi |-> RunEnd(flag, lo)]>>
             \o GroupsFrom(flag, RunEnd(flag, lo) + 1)

\* s.iloc[:k] and s.iloc[k:] for k <= 0, as _add_slrs calls them.
IlocTo(s, k)   == IF k < 0 THEN SubSeq(s, 1, Len(s) + k) ELSE SubSeq(s, 1, k)
IlocFrom(s, k) ==
    IF k < 0 THEN SubSeq(s, Len(s) + k + 1, Len(s))
    ELSE SubSeq(s, k + 1, Len(s))

\* np.split(s, n): n parts of one length; n = 0 divides by zero.
NpSplit(s, n) ==
    IF n = 0
    THEN [err |-> Raise("ZeroDivisionError", <<>>, <<n>>), val |-> <<>>]
    ELSE IF Len(s) % n # 0
    THEN [err |-> Raise("ValueError", <<>>, <<n>>), val |-> <<>>]
    ELSE [err |-> NoError,
          val |-> [c \in 1..n |->
                      SubSeq(s, (c - 1) * (Len(s) \div n) + 1,
                             c * (Len(s) \div n))]]

\* As _add_slrs, with the rows left over kept however few they are.
_add_slrs_all(slrs, _gdf, min_length, max_length) ==
    IF max_length = None
    THEN [err |-> NoError, slrs |-> Append(slrs, _gdf)]
    ELSE LET num_groups == Len(_gdf) \div max_length
             last_index == 0 - (Len(_gdf) % max_length)
             _gdfs == NpSplit(IlocTo(_gdf, last_index), num_groups)
             rem == IlocFrom(_gdf, last_index)
         IN  IF _gdfs.err.kind # "none"
             THEN [err |-> _gdfs.err, slrs |-> slrs]
             ELSE [err |-> NoError, slrs |-> Append(slrs \o _gdfs.val, rem)]

\* slrs._add_slrs: the kept group _gdf added to slrs, whole or in parts.
_add_slrs(slrs, _gdf, min_length, max_length) ==
    IF max_length = None
    THEN [err |-> NoError, slrs |-> Append(slrs, _gdf)]
    ELSE LET num_groups == Len(_gdf) \div max_length
             last_index == 0 - (Len(_gdf) % max_length)
             _gdfs == NpSplit(IlocTo(_gdf, last_index), num_groups)
             rem == IlocFrom(_gdf, last_index)
         IN  IF _gdfs.err.kind # "none"
             THEN [err |-> _gdfs.err, slrs |-> slrs]
             ELSE [err |-> NoError,
                   slrs |-> IF Len(rem) >= min_length
                            THEN Append(slrs \o _gdfs.val, rem)
                            ELSE slrs \o _gdfs.val]

\* The loop of slrs over the groups it keeps.
RECURSIVE AddGroups(_, _, _, _, _)
AddGroups(slrs, _df, groups, min_length, max_length) ==
    IF groups = <<>> THEN [err |-> NoError, slrs |-> slrs]
    ELSE LET one == _add_slrs(slrs,
                              SubSeq(_df, Head(groups).lo, Head(groups).hi),
                              min_length, max_length)
         IN  IF one.err.kind # "none" THEN one
             ELSE AddGroups(one.slrs, _df, Tail(groups), min_length,
                            max_length)

\* i.asfreq(..).index for freq a second: every second from the first row
\* of i to its last.
Asfreq(i, freq) ==
    IF i = <<>> THEN <<>>
    ELSE [k \in 1..((i[Len(i)].t - i[1].t) * freq + 1) |->
             i[1].t + (k - 1) \div freq]

\* The rows slrs works on (the airborne ones) and their _SLR flag.
SlrRows(data) == SelectSeq(Asfreq1S(data), LAMBDA x : x.WOW_IND # 1)

SlrFlags(_df, window_size, roll_lim, ps_lim, roll_mean) ==
    LET PS_C == RollingStdBelow([i \in 1..Len(_df) |-> _df[i].PS_RVSM],
                                window_size, ps_lim)
        ROLL_C == RollingPtpBelow([i \in 1..Len(_df) |-> _df[i].ROLL_GIN],
                                  roll_mean, window_size, roll_lim)
    IN  SubSeq([i \in 1..Len(_df) |-> IF PS_C[i] /\ ROLL_C[i] THEN 1 ELSE 0],
               1, Len(_df))

\* As SlrGroups, keeping the groups of flag 1 longer than the window.
SlrGroupsLonger(_df, _SLR, window_size) ==
    SelectSeq(GroupsFrom(_SLR, 1),
              LAMBDA g : _SLR[g.lo] # 0 /\ g.hi - g.lo + 1 > window_size)

\* The groups slrs keeps: those of flag 1 no shorter than the window.
SlrGroups(_df, _SLR, window_size) ==
    SelectSeq(GroupsFrom(_SLR, 1),
              LAMBDA g : _SLR[g.lo] # 0 /\ g.hi - g.lo + 1 >= window_size)

\* As Slrs, with max_length and min_length not compared.
SlrsUnchecked(data, min_length, max_length, roll_lim, ps_lim, roll_mean, freq, empty_raises) ==
    LET _df == SlrRows(data)
        _SLR == SlrFlags(_df, min_length, roll_lim, ps_lim, roll_mean)
        added == AddGroups(<<>>, _df, SlrGroups(_df, _SLR, min_length),
                           min_length, max_length)
    IN  IF added.err.kind # "none"
        THEN [err |-> added.err, ret |-> <<>>]
        ELSE [err |-> NoError,
              ret |-> [k \in 1..Len(added.slrs) |->
                          Asfreq(added.slrs[k], freq)]]

\* CoreAccessor.slrs.  asfreq of a frame without rows raises or gives no
\* index, as the pandas at hand has it: empty_raises.
Slrs(data, min_length, max_length, roll_lim, ps_lim, roll_mean, freq, empty_raises) ==
    IF max_length # None /\ max_length < min_length
    THEN [err |-> Raise("ValueError", <<"max_length must be >= min_length">>,
                        <<min_length, max_length>>),
          ret |-> <<>>]
    ELSE LET _df == SlrRows(data)
             _SLR == SlrFlags(_df, min_length, roll_lim, ps_lim, roll_mean)
             added == AddGroups(<<>>, _df, SlrGroups(_df, _SLR, min_length),
                                min_length, max_length)
         IN  IF added.err.kind # "none"
             THEN [err |-> added.err, ret |-> <<>>]
             ELSE IF empty_raises /\ \E k \in 1..Len(added.slrs) :
                                        added.slrs[k] = <<>>
             THEN [err |-> Raise("ValueError", <<>>, <<>>), ret |-> <<>>]
             ELSE [err |-> NoError,
                   ret |-> [k \in 1..Len(added.slrs) |->
                               Asfreq(added.slrs[k], freq)]]

\* The rows profiles works on: _df[_df.WOW_IND == 0].
ProfileRows(data) == SelectSeq(Asfreq1S(data), LAMBDA x : x.WOW_IND = 0)

\* PS_RVSM.rolling(w, center=True).mean().diff() at row i of n, w being the
\* window rolling: whether it is a number, and w times it.
DeltaDefined(n, i, w) ==
    i >= 2 /\ WinLo(i - 1, w) >= 1 /\ WinHi(i, w) <= n

DeltaTimesRolling(ps, i, w) ==
    SumOver(ps, WinLo(i, w), WinHi(i, w))
        - SumOver(ps, WinLo(i - 1, w), WinHi(i - 1, w))

\* The column profile_down: 1 where the difference is below thresh.
profile_down(_df, w) ==
    LET ps == [i \in 1..Len(_df) |-> _df[i].PS_RVSM]
    IN  [i \in 1..Len(_df) |->
            IF DeltaDefined(Len(_df), i, w)
               /\ 100 * DeltaTimesRolling(ps, i, w) < thresh * w
            THEN 1 ELSE 0]

\* As profile_up, with 1 where the difference is below -thresh.
profile_up_falling(_df, w) ==
    LET ps == [i \in 1..Len(_df) |-> _df[i].PS_RVSM]
    IN  [i \in 1..Len(_df) |->
            IF DeltaDefined(Len(_df), i, w)
               /\ 100 * DeltaTimesRolling(ps, i, w) < 0 - thresh * w
            THEN 1 ELSE 0]

\* The column profile_up: 1 where the difference is above -thresh.
profile_up(_df, w) ==
    LET ps == [i \in 1..Len(_df) |-> _df[i].PS_RVSM]
    IN  [i \in 1..Len(_df) |->
            IF DeltaDefined(Len(_df), i, w)
               /\ 100 * DeltaTimesRolling(ps, i, w) > 0 - thresh * w
            THEN 1 ELSE 0]

\* The index of the rows lo..hi of _df.
IndexOf(_df, lo, hi) == [j \in 1..(hi - lo + 1) |-> _df[lo + j - 1].t]

\* As ProfileRanges, keeping the groups whose flag is 1.
ProfileRangesFlagged(_df, flag, min_length) ==
    LET kept == SelectSeq(GroupsFrom(flag, 1),
                          LAMBDA g : flag[g.lo] = 1
                                     /\ g.hi - g.lo + 1 >= min_length)
    IN  [k \in 1..Len(kept) |-> IndexOf(_df, kept[k].lo, kept[k].hi)]

\* The loops of profiles over the groups of a flag: a group is passed over
\* if the mean of its flag is not 0 or it is shorter than min_length.
ProfileRanges(_df, flag, min_length) ==
    LET kept == SelectSeq(GroupsFrom(flag, 1),
                          LAMBDA g : flag[g.lo] = 0
                                     /\ g.hi - g.lo + 1 >= min_length)
    IN  [k \in 1..Len(kept) |-> IndexOf(_df, kept[k].lo, kept[k].hi)]

\* CoreAccessor.profiles, w being its window rolling.
Profiles(data, min_length, w) ==
    LET _df == ProfileRows(data)
    IN  [ascending |-> ProfileRanges(_df, profile_up(_df, w), min_length),
         descending |-> ProfileRanges(_df, profile_down(_df, w), min_length)]

RollMeans == {1, 2}

\* A call of slrs, roll_lim and ps_lim and freq left at 3, 2 and 1.  The
\* detectors read the table and write nothing, so one call on each table
\* is followed.
slrs ==
    /\ op = "init"
    /\ \E min_length \in 1..MaxMinLength,
          max_length \in {None} \cup (1..MaxMaxLength),
          roll_mean \in RollMeans, empty_raises \in BOOLEAN :
          LET res == Slrs(df, min_length, max_length, 3, 2, roll_mean, 1,
                          empty_raises)
          IN  /\ err' = res.err
              /\ ret' = res.ret
              /\ arg' = <<min_length, max_length, roll_mean>>
    /\ op' = "slrs"
    /\ UNCHANGED <<accvars, fltvars, catvars, detvars>>

profiles ==
    /\ op = "init"
    /\ \E min_length \in 1..MaxMinLength :
          /\ ret' = Profiles(df, min_length, rolling)
          /\ arg' = <<min_length>>
    /\ op' = "profiles"
    /\ err' = NoError
    /\ UNCHANGED <<accvars, fltvars, catvars, detvars>>

NextDetect ==
    \/ slrs
    \/ profiles

\* A level table of n rows, the aircraft on the ground at second gap (at
\* none when gap is 0).
LevelFrame(n, gap) ==
    [i \in 1..n |->
        IF i = gap THEN [WOW_IND |-> 1, PS_RVSM |-> 0, ROLL_GIN |-> 0]
        ELSE [WOW_IND |-> 0, PS_RVSM |-> 0, ROLL_GIN |-> 0]]

ExampleMinLengths == 90..120

\* The tables whose steady segment has 250 samples, for a min_length of
\* ExampleMinLengths and the roll_mean of 5.
ExampleFrames ==
    {LevelFrame(250 + (m - 1) + (5 - 1), 0) : m \in ExampleMinLengths}
        \cup {LevelFrame(250 + (m - 1) + (5 - 1) + 1, 200) :
                  m \in ExampleMinLengths}

\* A call of slrs with max_length=100 on a table whose steady segment has
\* 250 samples.
slrs_example ==
    /\ op = "init"
    /\ \E min_length \in ExampleMinLengths, empty_raises \in BOOLEAN :
          /\ Len(SlrRows(df)) = 250 + (min_length - 1) + (5 - 1)
          /\ LET res == Slrs(df, min_length, 100, 3, 2, 5, 1, empty_raises)
             IN  /\ err' = res.err
                 /\ ret' = res.ret
                 /\ arg' = <<min_length, 100, 5>>
    /\ op' = "slrs"
    /\ UNCHANGED <<accvars, fltvars, catvars, detvars>>

NextExample == slrs_example

InitExample ==
    /\ hook = "core"
    /\ registry = reg_accessors
    /\ df \in ExampleFrames
    /\ InitState

SpecExample == InitExample /\ [][NextExample]_vars

\* An airborne table of 200 rows whose pressure falls by d1 a second for the
\* first k seconds and by d2 a second after them.
RampFrame(d1, d2, k) ==
    [i \in 1..200 |->
        [WOW_IND |-> 0,
         PS_RVSM |-> 1000 - (IF i <= k THEN d1 * i ELSE d1 * k + d2 * (i - k)),
         ROLL_GIN |-> 0]]

RampFrames ==
    {RampFrame(d1, d2, 20 * j) : d1 \in 1..3, d2 \in 1..3, j \in 1..9}

\* A call of profiles(min_length=60) on a falling ramp, the window rolling
\* being the 60 of the source.
profiles_ramp ==
    /\ op = "init"
    /\ ret' = Profiles(df, 60, 60)
    /\ arg' = <<60>>
    /\ op' = "profiles"
    /\ err' = NoError
    /\ UNCHANGED <<accvars, fltvars, catvars, detvars>>

NextRamp == profiles_ramp

InitRamp ==
    hook = "core" /\ registry = reg_accessors /\ df \in RampFrames /\ InitState

SpecRamp == InitRamp /\ [][NextRamp]_vars

InitDetect ==
    hook = "core" /\ registry = reg_accessors /\ df \in Frames /\ InitState

SpecDetect == InitDetect /\ [][NextDetect]_vars

\* ------------------------------------------------ FltSumDataModel (events)
\* Times are whole seconds; an event is a row of the summary file with its
\* start_time and its stop_time (None for an instantaneous event).  In this
\* part df holds the rows of the summary file in file order.
EventTimes == {0, 60, 61, 121}

Events == [start_time : EventTimes, stop_time : EventTimes \cup {None}]

RECURSIVE SeqsUpTo(_, _)
SeqsUpTo(S, n) ==
    IF n = 0 THEN {<<>>}
    ELSE LET shorter == SeqsUpTo(S, n - 1)
         IN  shorter \cup {Append(s, e) : s \in {q \in shorter : Len(q) = n - 1}, e \in S}

Summaries == SeqsUpTo(Events, MaxEvents)

\* sorted(rows, key=start_time): a stable sort, rows of equal start_time keep
\* their file order.
RECURSIVE SortedByStart(_)
SortedByStart(rows) ==
    IF rows = <<>> THEN <<>>
    ELSE LET n    == Len(rows)
             head == SortedByStart(SubSeq(rows, 1, n - 1))
             last == rows[n]
             keep == Cardinality({i \in DOMAIN head : head[i].start_time <= last.start_time})
         IN  SubSeq(head, 1, keep) \o <<last>> \o SubSeq(head, keep + 1, n - 1)

get(rows) == SortedByStart(rows)

Abs(x) == IF x < 0 THEN 0 - x ELSE x

in_time_open(e, _time, _within) ==
    IF e.stop_time = None
    THEN Abs(e.start_time - _time) < _within
    ELSE e.start_time - _within < _time /\ _time < e.stop_time + _within

in_time(e, _time, _within) ==
    IF e.stop_time = None
    THEN Abs(e.start_time - _time) <= _within
    ELSE e.start_time - _within <= _time /\ _time <= e.stop_time + _within

\* _get_time_event(time, within): time None stands for a string that does
\* not parse (NaT); within None is replaced by the default of 60 seconds.
GetTimeEvent(rows, time, within) ==
    IF time = None THEN [raised |-> TRUE, events |-> <<>>]
    ELSE LET _within == IF within = None THEN DefaultWithin ELSE within
             sel(e) == in_time(e, time, _within)
         IN  [raised |-> FALSE, events |-> SelectSeq(get(rows), sel)]

Withins == {None, 0, 1, 60}

\* CoreFltSumAccessor.get_event(time, within=None)
get_event ==
    /\ op = "init"
    /\ \E time \in EventTimes \cup {None}, within \in Withins :
         LET r == GetTimeEvent(df, time, within)
         IN  /\ ret' = r.events
             /\ err' = IF r.raised THEN Raise("TypeError", <<>>, <<>>) ELSE NoError
             /\ arg' = <<time, within>>
    /\ op' = "get_event"
    /\ UNCHANGED <<accvars, fltvars, catvars, detvars>>

NextFltSum == get_event

InitFltSum ==
    hook = "fltsum" /\ registry = reg_accessors /\ df \in Summaries /\ InitState

SpecFltSum == InitFltSum /\ [][NextFltSum]_vars

\* ================================================================== claims
Pins == <<_version, _revision, Freq(Self)>>

FlightPins == <<flt_version, flt_revision, flt_freq>>

Setters == {"set_version", "set_revision", "set_freq"}

\* The accessor that add_file builds from the files s, in that order.
RECURSIVE Replay(_, _)
Replay(h, s) ==
    IF Len(s) = 0 THEN NewAccessor(h)
    ELSE AccessorAddFile(Replay(h, SubSeq(s, 1, Len(s) - 1)), s[Len(s)])

Orders(n) == {p \in [1..n -> 1..n] : \A i, j \in 1..n : p[i] = p[j] => i = j}

Reorder(s, p) == [i \in 1..Len(s) |-> s[p[i]]]

\* C1: after any sequence of add_file calls the files matching the pins are
\* not none, and reading file succeeds.
C1_FilteredNonEmpty ==
    (~explicit /\ Len(_files) > 0) =>
        /\ Len(filtered_files(Self)) > 0
        /\ op = "file" => err.kind = "none"

\* C2: an assignment of the version pin or of the revision pin that raises
\* leaves the version, revision and frequency pins as they were.
C2_SetterAtomic ==
    [][(op' \in {"set_version", "set_revision"} /\ err'.kind # "none")
           => Pins' = Pins]_vars

\* C3: an assignment of a pin of an accessor holding files that returns
\* leaves a file matching the pins; a frequency no file of the pinned
\* version and revision has is rejected.
C3_SetterValidates ==
    (op \in Setters /\ err.kind = "none" /\ Len(_files) > 0)
        => Len(filtered_files(Self)) > 0

\* C4: after add_file calls alone, for files that all carry a version and a
\* revision, the version pin is the greatest version and the revision pin
\* the greatest revision among the files of that version.
CarryVersionRevision(s) ==
    \A i \in 1..Len(s) : s[i]._version # None /\ s[i]._revision # None

C4_MaxVersionRevision ==
    (~explicit /\ Len(_files) > 0 /\ CarryVersionRevision(_files)) =>
        /\ \E i \in 1..Len(_files) : _files[i]._version = _version
        /\ \A i \in 1..Len(_files) : _files[i]._version <= _version
        /\ \E i \in 1..Len(_files) :
              _files[i]._version = _version /\ _files[i]._revision = _revision
        /\ \A i \in 1..Len(_files) :
              _files[i]._version = _version => _files[i]._revision <= _revision

\* C4 witness: two files added, the greatest revision is that of a file of
\* the lower version, and the pins are the higher version with its revision.
C4_Witness ==
    /\ ~explicit
    /\ op = "add_file"
    /\ Len(_files) = 2
    /\ CarryVersionRevision(_files)
    /\ _files[1]._version < _files[2]._version
    /\ _files[1]._revision > _files[2]._revision
    /\ _version = _files[2]._version
    /\ _revision = _files[2]._revision

\* C5: after add_file calls alone the frequency pin is the greatest frequency
\* among the files of the pinned version and revision.
C5_MaxFreq ==
    LET same(x) == x._version = _version /\ x._revision = _revision
        m == PyMax(FreqsOf(SelectSeq(_files, same)))
    IN  (~explicit /\ hook = "core" /\ Len(_files) > 0 /\ m.ok)
            => Freq(Self) = m.val

\* C6: an error raised because no file of a flight holding files matches
\* carries the version, revision and frequency that were tried, a value of 0
\* included.
C6_ErrorCarriesAttempted ==
    (err.kind # "none" /\ DOMAIN flt_files # {})
        => err.carried = err.attempted

\* C7: with more than one file matching the pins, file returns a path and
\* the same path whatever the order the same files were added in.
C7_FileOrderIndependent ==
    (~explicit /\ Len(filtered_files(Self)) > 1) =>
        /\ FileOf(Self).err.kind = "none"
        /\ \A p \in Orders(Len(_files)) :
              FileOf(Replay(hook, Reorder(_files, p))).ret = FileOf(Self).ret

\* C8: a FAAMFlight.set that raises leaves the version, revision and
\* frequency pins as they were before the call.
C8_SetAtomic ==
    [][(op' = "flight_set" /\ err'.kind # "none")
           => FlightPins' = FlightPins]_vars

\* C9: flights are keyed by the lower-cased flight number: files whose flight
\* numbers differ in letter case only are in one Flight, and FAAM[name]
\* finds it for any letter case of name.
C9_LowerCasedKeys ==
    /\ \A k \in DOMAIN flights : k = Lower(k)
    /\ \A item \in FlightNums :
          (\E k \in DOMAIN flights : Lower(k) = Lower(item))
              => GetItem(flights, item).err.kind = "none"

\* C10: a file whose name matches a pattern and whose date is no date is
\* skipped: the scan raises nothing and goes on.
C10_BadDateSkipped ==
    op = "load_file" => (err.kind = "none" /\ scan = "scanning")

\* The files of the accessor of hook h of flight k, none if there is none.
AccFiles(fls, k, h) ==
    IF k \in DOMAIN fls
    THEN IF h \in DOMAIN fls[k]._accessors
         THEN fls[k]._accessors[h]._files ELSE <<>>
    ELSE <<>>

IsPrefix(s, t) == Len(s) <= Len(t) /\ SubSeq(t, 1, Len(s)) = s

\* C11: a scanned file is added to at most one accessor, that of the first
\* hook in registration order whose pattern matches its base name; hooks
\* registered later are not tried, whether or not their patterns match.
C11_FirstMatchWins ==
    [][op' = "load_file" =>
         \A k \in FlightNums, i \in 1..Len(registry) :
            AccFiles(flights', k, registry[i]) # AccFiles(flights, k, registry[i])
                => /\ k = arg'[1].flightnum
                   /\ i = SetMin(Hits(registry, arg'[1]) \cup {Len(registry) + 1})
                   /\ AccFiles(flights', k, registry[i])
                        = Append(AccFiles(flights, k, registry[i]),
                                 FAAMFileOf(registry[i], arg'[1]))]_vars

C11_Witness ==
    /\ op = "load_file"
    /\ err.kind = "none"
    /\ Cardinality(Hits(registry, arg[1])) > 1
    /\ \E f \in SeqRange(AccFiles(flights, arg[1].flightnum,
                                   registry[SetMin(Hits(registry, arg[1]))])) :
          f = FAAMFileOf(registry[SetMin(Hits(registry, arg[1]))], arg[1])

\* C12: a scanned file whose base name no registered pattern matches leaves
\* the flights as they were and raises nothing.
C12_NoMatchIgnored ==
    [][(op' = "load_file" /\ Hits(registry, arg'[1]) = {})
          => (flights' = flights /\ err'.kind = "none"
              /\ scan' = "scanning")]_vars

C12_Witness ==
    /\ op = "load_file"
    /\ Hits(registry, arg[1]) = {}
    /\ DOMAIN flights # {}
    /\ err.kind = "none"

\* C13: looking up on a flight a hook no file was added for raises
\* AttributeError naming the hook; once a file was added for it the lookup
\* returns the one accessor of the hook, and every later file of the flight
\* and hook is added to that accessor.
C13_OneAccessorPerHook ==
    [][/\ op' = "getattr" =>
            IF AccFiles(flights', arg'[1], arg'[2]) = <<>>
            THEN err'.kind = "AttributeError" /\ err'.carried = <<arg'[2]>>
            ELSE /\ err'.kind = "none"
                 /\ ret' = <<flights'[arg'[1]]._accessors[arg'[2]]>>
                 /\ ret'[1].hook = arg'[2]
       /\ \A k \in FlightNums, h \in SeqRange(registry) :
             IsPrefix(AccFiles(flights, k, h), AccFiles(flights', k, h))]_vars

C13_Witness ==
    /\ op = "getattr"
    /\ err.kind = "none"
    /\ Len(ret) = 1
    /\ Len(ret[1]._files) = 2

\* C14: the marker of the unsplit file is no positive integer: after the
\* frequency is pinned to a positive integer n the pin does not read back
\* as 'full', and the files selected are those whose name carries n, never
\* the full-rate ones.
C14_FullDistinct ==
    (op = "set_freq" /\ arg[1] > 0 /\ "freq" \in fileattrs(hook))
        => /\ Freq(Self) # full
           /\ \A f \in SeqRange(filtered_files(Self)) :
                 f._freq # FULL_FREQ /\ FileFreq(f) = arg[1]

\* C15: reading file changes neither the files nor any pin, and two reads
\* with no add_file and no assignment between them give the same result.
C15_FileReadOnly ==
    [][op' = "file" =>
          /\ accvars' = accvars
          /\ op = "file" => (ret' = ret /\ err' = err)]_vars

C15_Witness ==
    /\ op = "file"
    /\ explicit
    /\ err.kind = "none"
    /\ Len(_files) >= 2

\* The groups the last call of slrs kept, and the rows it worked on.
KeptRows == SlrRows(df)

KeptGroups ==
    SlrGroups(KeptRows, SlrFlags(KeptRows, arg[1], 3, 2, arg[3]), arg[1])

\* The chunks of a segment of L samples: L \div M of M samples each, then
\* the L % M left over if they are m or more.
ChunksOf(seg, m, M) ==
    LET whole == [c \in 1..(Len(seg) \div M) |->
                     SubSeq(seg, (c - 1) * M + 1, c * M)]
        rest == SubSeq(seg, (Len(seg) \div M) * M + 1, Len(seg))
    IN  IF Len(rest) >= m THEN Append(whole, rest) ELSE whole

RECURSIVE ChunksOfAll(_, _, _, _)
ChunksOfAll(rows, groups, m, M) ==
    IF groups = <<>> THEN <<>>
    ELSE ChunksOf(SubSeq(rows, Head(groups).lo, Head(groups).hi), m, M)
             \o ChunksOfAll(rows, Tail(groups), m, M)

\* C16: with max_length M set and M >= min_length m, slrs emits for a kept
\* segment of L samples L \div M chunks of M consecutive samples each, in
\* order, then the L % M samples left over if and only if they are m or
\* more; so too when L < M and when M divides L.
C16_Chunking ==
    (op = "slrs" /\ arg[2] # None /\ arg[2] >= arg[1])
        => /\ err.kind = "none"
           /\ ret = [k \in 1..Len(ChunksOfAll(KeptRows, KeptGroups,
                                              arg[1], arg[2])) |->
                        Asfreq(ChunksOfAll(KeptRows, KeptGroups,
                                           arg[1], arg[2])[k], 1)]

\* C18: slrs raises whenever max_length is given and is less than
\* min_length, and emits no run then.
C18_RaisesOnShortMax ==
    (op = "slrs" /\ arg[2] # None /\ arg[2] < arg[1])
        => (err.kind = "ValueError" /\ ret = <<>>)

C18_Witness ==
    /\ op = "slrs"
    /\ arg[2] # None
    /\ arg[2] < arg[1]
    /\ KeptGroups # <<>>
    /\ err.kind = "ValueError"

\* The seconds of the table at which the aircraft is on the ground.
OnGround == {t \in 1..Len(df) : df[t].WOW_IND = 1}

\* C19: no second at which the ground indicator is true is in a range slrs
\* or profiles returns, whatever the other channels are, also when a kept
\* segment spans the gap the dropped rows left.
C19_NoGroundIndex ==
    /\ (op = "slrs" /\ err.kind = "none")
          => \A k \in 1..Len(ret) : SeqRange(ret[k]) \cap OnGround = {}
    /\ op = "profiles"
          => /\ \A k \in 1..Len(ret.ascending) :
                   SeqRange(ret.ascending[k]) \cap OnGround = {}
             /\ \A k \in 1..Len(ret.descending) :
                   SeqRange(ret.descending[k]) \cap OnGround = {}

\* The rows the last call of profiles worked on, and those of them that
\* are descending-candidates (delta < +thresh) and ascending-candidates
\* (delta > -thresh).
ProfiledRows == ProfileRows(df)

DownCandidates ==
    {i \in 1..Len(ProfiledRows) : profile_down(ProfiledRows, rolling)[i] = 1}

UpCandidates ==
    {i \in 1..Len(ProfiledRows) : profile_up(ProfiledRows, rolling)[i] = 1}

\* The range rg is a maximal run of rows of S, of length min_length or more.
MaximalRun(rows, rg, S, min_length) ==
    /\ Len(rg) >= min_length
    /\ Len(rg) >= 1
    /\ \E lo \in 1..Len(rows) :
          LET hi == lo + Len(rg) - 1
          IN  /\ hi <= Len(rows)
              /\ rg = IndexOf(rows, lo, hi)
              /\ \A i \in lo..hi : i \in S
              /\ lo = 1 \/ lo - 1 \notin S
              /\ hi = Len(rows) \/ hi + 1 \notin S

\* C20, as claimed: every range of 'descending' is a maximal run, of length
\* min_length or more, of descending-candidates, and every range of
\* 'ascending' one of ascending-candidates.
C20_RunsOfCandidates ==
    op = "profiles"
        => /\ \A k \in 1..Len(ret.descending) :
                 MaximalRun(ProfiledRows, ret.descending[k], DownCandidates,
                            arg[1])
           /\ \A k \in 1..Len(ret.ascending) :
                 MaximalRun(ProfiledRows, ret.ascending[k], UpCandidates,
                            arg[1])

\* C20, amended: every range of 'descending' is a maximal run, of length
\* min_length or more, of rows that are no descending-candidates (delta is
\* no number there or delta >= +thresh), and every range of 'ascending' one
\* of rows that are no ascending-candidates.
C20_RunsOfNonCandidates ==
    op = "profiles"
        => /\ \A k \in 1..Len(ret.descending) :
                 MaximalRun(ProfiledRows, ret.descending[k],
                            (1..Len(ProfiledRows)) \ DownCandidates, arg[1])
           /\ \A k \in 1..Len(ret.ascending) :
                 MaximalRun(ProfiledRows, ret.ascending[k],
                            (1..Len(ProfiledRows)) \ UpCandidates, arg[1])

C20_Witness ==
    /\ op = "profiles"
    /\ \E k \in 1..Len(ret.descending) :
          \E i \in 1..Len(ProfiledRows) :
             /\ ProfiledRows[i].t \in SeqRange(ret.descending[k])
             /\ DeltaDefined(Len(ProfiledRows), i, rolling)
    /\ UpCandidates # {}
    /\ OnGround # {}

\* The samples (airborne seconds of the table) a returned range covers.
SamplesOf(rg) == SeqRange(rg) \ OnGround

\* The last call emitted exactly two chunks of 100 samples each, the first
\* 200 samples of the kept segment.
TwoChunksOf100 ==
    /\ err.kind = "none"
    /\ Len(ret) = 2
    /\ LET rows == KeptRows
           kept == KeptGroups
       IN  /\ Len(kept) = 1
           /\ \A k \in 1..2 :
                 SamplesOf(ret[k])
                     = {rows[i].t :
                           i \in (kept[1].lo + 100 * (k - 1))
                                     ..(kept[1].lo + 100 * k - 1)}

\* The last call was slrs(min_length=m, max_length=100) on a table whose
\* steady segment has 250 samples.
ExampleCall(m) ==
    /\ op = "slrs"
    /\ arg = <<m, 100, 5>>
    /\ Len(KeptRows) = 250 + (m - 1) + (5 - 1)

\* C17, as claimed: slrs with max_length=100 and min_length=120 on a steady
\* segment of 250 samples yields exactly 2 chunks of 100 samples, the 50
\* left over discarded.
C17_TwoChunks == ExampleCall(120) => TwoChunksOf100

\* C17, amended: with min_length=120 the call raises ValueError, 100 being
\* less than 120, and emits nothing; with a min_length of 100 or less and
\* more than 50 it yields exactly 2 chunks of 100 samples, the 50 left over
\* discarded.
C17_TwoChunksOrRaises ==
    \A m \in ExampleMinLengths :
       ExampleCall(m)
           => IF m > 100 THEN err.kind = "ValueError" /\ ret = <<>>
              ELSE TwoChunksOf100

C17_Witness ==
    /\ ExampleCall(100)
    /\ OnGround # {}
    /\ TwoChunksOf100

\* C21: for an airborne series of 200 samples whose pressure falls at every
\* sample by more than thresh (window 60, min_length 60), profiles returns
\* the whole series as 'ascending' and no 'descending' range.
C21_RampAscending ==
    (op = "profiles" /\ Len(df) = 200)
        => /\ ret.ascending = <<[i \in 1..200 |-> i]>>
           /\ ret.descending = <<>>

C21_Witness ==
    /\ op = "profiles"
    /\ Len(df) = 200
    /\ df[1].PS_RVSM - df[2].PS_RVSM # df[199].PS_RVSM - df[200].PS_RVSM
    /\ Len(ret.ascending) = 1

\* Occurrences of the row e in the list rows.
CountOf(rows, e) == Cardinality({i \in DOMAIN rows : rows[i] = e})

\* C22: a point-in-time lookup of the flight summary that does not raise
\* returns exactly the events e of the file with
\* start(e) - tol <= t <= stop(e) + tol when e has a stop time, and with
\* |start(e) - t| <= tol when it has none, both bounds inclusive, where tol
\* is 60 seconds when no tolerance is given; the events come in start-time
\* order.
C22_TimeEvent ==
    (op = "get_event" /\ err = NoError)
        => LET t   == arg[1]
               tol == IF arg[2] = None THEN 60 ELSE arg[2]
               covers(e) ==
                   IF e.stop_time # None
                   THEN e.start_time - tol <= t /\ t <= e.stop_time + tol
                   ELSE e.start_time - t <= tol /\ t - e.start_time <= tol
           IN  /\ \A e \in Events :
                    CountOf(ret, e) = IF covers(e) THEN CountOf(df, e) ELSE 0
               /\ \A i, j \in DOMAIN ret :
                    i < j => ret[i].start_time <= ret[j].start_time

\* A lookup without a tolerance on a file of two rows written out of start
\* order, both returned, one of them an instantaneous event exactly 60
\* seconds away from the time asked for.
C22_Witness ==
    /\ op = "get_event" /\ err = NoError
    /\ arg[2] = None
    /\ Len(df) = 2 /\ df[1].start_time > df[2].start_time
    /\ Len(ret) = 2
    /\ \E i \in DOMAIN ret :
         ret[i].stop_time = None /\ Abs(ret[i].start_time - arg[1]) = 60

\* The list groups partitions the rows of rows, in row order, into maximal
\* runs of one value of flag; rows next to each other of one flag are of
\* one segment though their seconds are not next to each other.
RunsPartition(rows, flag, groups) ==
    /\ Len(flag) = Len(rows)
    /\ (groups = <<>>) <=> (rows = <<>>)
    /\ groups # <<>> => (groups[1].lo = 1 /\ groups[Len(groups)].hi = Len(rows))
    /\ \A k \in 1..Len(groups) :
          /\ groups[k].lo <= groups[k].hi
          /\ \A i \in groups[k].lo..groups[k].hi : flag[i] = flag[groups[k].lo]
    /\ \A k \in 1..(Len(groups) - 1) :
          /\ groups[k + 1].lo = groups[k].hi + 1
          /\ flag[groups[k + 1].lo] # flag[groups[k].hi]
    /\ \A i \in 1..(Len(rows) - 1) :
          (rows[i + 1].t > rows[i].t + 1 /\ flag[i + 1] = flag[i])
              => \E k \in 1..Len(groups) :
                    groups[k].lo <= i /\ i + 1 <= groups[k].hi

\* The range rg is the index of one of the segments groups of rows.
IndexOfSegment(rows, groups, rg) ==
    \E k \in 1..Len(groups) : rg = IndexOf(rows, groups[k].lo, groups[k].hi)

\* C23: the segments slrs and profiles group the retained samples into
\* partition them, in row order, into maximal runs of one flag: every sample
\* is in exactly one segment, the samples of a segment have one flag, two
\* consecutive segments have different flags, and two consecutive retained
\* samples of one flag are in one segment also when the time index jumps
\* between them; every range profiles returns is the index of such a segment.
C23_Segmentation ==
    /\ op = "slrs"
          => LET _SLR == SlrFlags(KeptRows, arg[1], 3, 2, arg[3])
             IN  RunsPartition(KeptRows, _SLR, GroupsFrom(_SLR, 1))
    /\ op = "profiles"
          => LET down == profile_down(ProfiledRows, rolling)
                 up   == profile_up(ProfiledRows, rolling)
             IN  /\ RunsPartition(ProfiledRows, down, GroupsFrom(down, 1))
                 /\ RunsPartition(ProfiledRows, up, GroupsFrom(up, 1))
                 /\ \A k \in 1..Len(ret.descending) :
                       IndexOfSegment(ProfiledRows, GroupsFrom(down, 1),
                                      ret.descending[k])
                 /\ \A k \in 1..Len(ret.ascending) :
                       IndexOfSegment(ProfiledRows, GroupsFrom(up, 1),
                                      ret.ascending[k])

\* A call of profiles that returns a range whose seconds jump over a second
\* on the ground, of a table whose flags change along the rows.
C23_Witness ==
    /\ op = "profiles"
    /\ Len(GroupsFrom(profile_up(ProfiledRows, rolling), 1)) >= 2
    /\ \E k \in 1..Len(ret.ascending) :
          \E j \in 1..(Len(ret.ascending[k]) - 1) :
             ret.ascending[k][j + 1] > ret.ascending[k][j] + 1

\* The rows of KeptRows the last call of slrs found candidate-steady.
SteadyCandidates ==
    {i \in 1..Len(KeptRows) : SlrFlags(KeptRows, arg[1], 3, 2, arg[3])[i] = 1}

\* The maximal runs of candidate-steady rows of min_length rows or more, as
\* their first and last row.
LongSteadyRuns ==
    {r \in (1..Len(KeptRows)) \X (1..Len(KeptRows)) :
        /\ r[1] <= r[2]
        /\ r[2] - r[1] + 1 >= arg[1]
        /\ \A i \in r[1]..r[2] : i \in SteadyCandidates
        /\ r[1] = 1 \/ r[1] - 1 \notin SteadyCandidates
        /\ r[2] = Len(KeptRows) \/ r[2] + 1 \notin SteadyCandidates}

SecondsOfRun(r) == {KeptRows[i].t : i \in r[1]..r[2]}

MatchesPins(x, v, r, f) ==
    /\ v # None => x._version = v
    /\ r # None => x._revision = r
    /\ f # None => FileFreq(x) = f

AnyMatches(files, v, r, f) ==
    \E i \in 1..Len(files) : MatchesPins(files[i], v, r, f)

\* The freq property of the accessor in the state at hand.
FreqNow == IF _freq = FULL_FREQ THEN full ELSE _freq

\* C25: an assignment accessor.version = v on an accessor of the attributes
\* version, revision and freq.  When no record matches (v, revision, freq)
\* the revision is pinned anew to the greatest revision of the records of
\* version v, and the assignment succeeds exactly when a record then matches
\* (v, that revision, freq); when a record matches (v, revision, freq) the
\* assignment succeeds and leaves revision and freq as they were.
C25_VersionSetter ==
    [][(op' = "set_version" /\ hook = "core")
          => LET v == arg'[1]
                 ofv == {i \in 1..Len(_files) :
                            MatchesPins(_files[i], v, None, None)}
             IN  IF AnyMatches(_files, v, _revision, FreqNow)
                 THEN /\ err'.kind = "none"
                      /\ _version' = v
                      /\ _revision' = _revision
                      /\ _freq' = _freq
                 ELSE /\ ofv # {}
                         => _revision' = SetMax({_files[i]._revision : i \in ofv})
                      /\ err'.kind = "none"
                           <=> AnyMatches(_files, v, _revision', FreqNow)
                      /\ err'.kind = "none" => _version' = v
                      /\ _freq' = _freq]_vars

\* An assignment of a version of which there are records, failed: no record
\* matched before the revision was pinned anew nor after it, and the
\* revision is the greatest of that version, which no record of the version
\* pinned has.
C25_Witness ==
    /\ op = "set_version" /\ hook = "core"
    /\ err.kind = "ValueError"
    /\ arg[1] # None /\ arg[1] # _version
    /\ \E i \in 1..Len(_files) : _files[i]._version = arg[1]
    /\ _revision = SetMax({_files[i]._revision :
                              i \in {j \in 1..Len(_files) :
                                        _files[j]._version = arg[1]}})
    /\ \A i \in 1..Len(_files) :
          _files[i]._version = _version => _files[i]._revision # _revision

\* The versions the files files carry, and the revisions those of them of
\* version v and extension ext carry (a file without either reads None and
\* "None").
VersionsCarried(files) ==
    {files[i]._version : i \in 1..Len(files)} \ {None}

RevisionsCarried(files, v, ext) ==
    {files[i]._revision :
        i \in {j \in 1..Len(files) :
                  files[j]._version = v /\ files[j]._ext = ext}} \ {None}

MaxOrNone(S) == IF S = {} THEN None ELSE SetMax(S)

\* C26, as claimed: every add_file call leaves the version pin at the
\* greatest version the files carry and the revision pin at the greatest
\* revision of the files of that version (and of the extension pinned, where
\* files have one), whatever the pins were before the call; a pin assigned
\* before it does not outlast it.
C26_PinsOverwritten ==
    [][op' = "add_file"
          => /\ _version' = MaxOrNone(VersionsCarried(_files'))
             /\ _revision' = MaxOrNone(RevisionsCarried(_files', _version', _ext'))]_vars

\* C26, amended: every add_file call on an accessor whose files all carry a
\* version and a revision leaves the version pin at the greatest version
\* and the revision pin at the greatest revision of the files of that
\* version, whatever the pins were before the call.
C26_PinsOverwrittenIfCarried ==
    [][(op' = "add_file" /\ CarryVersionRevision(_files'))
          => /\ _version' = MaxOrNone(VersionsCarried(_files'))
             /\ _revision' = MaxOrNone(RevisionsCarried(_files', _version', _ext'))]_vars

\* A file added after pins were assigned, of a version or revision below
\* the greatest: the pins are the greatest version and its greatest
\* revision.
C26_Witness ==
    /\ op = "add_file" /\ explicit
    /\ Len(_files) = MaxFiles + 1
    /\ CarryVersionRevision(_files)
    /\ arg[1]._version < _version \/ arg[1]._revision < _revision
    /\ _version = SetMax(VersionsCarried(_files))
    /\ _revision = SetMax(RevisionsCarried(_files, _version, _ext))

\* C27, as claimed: once the freq pin is not None, no add_file call changes
\* what the freq property reads, whatever file is added.
C27_FreqKept ==
    [][(op' = "add_file" /\ _freq # None) => Freq(Self)' = Freq(Self)]_vars

\* C27, amended: once the freq pin of an accessor whose fileattrs hold freq
\* is not None, no add_file call changes what the freq property reads.
C27_FreqKeptIfAttr ==
    [][(op' = "add_file" /\ _freq # None /\ "freq" \in fileattrs(hook))
          => Freq(Self)' = Freq(Self)]_vars

\* A file of a greater frequency, of the version and revision pinned, added
\* to an accessor whose freq was assigned: the pin is as it was.
C27_Witness ==
    /\ op = "add_file" /\ explicit
    /\ "freq" \in fileattrs(hook)
    /\ Len(_files) = MaxFiles + 1
    /\ _freq = 1
    /\ arg[1]._freq = FULL_FREQ
    /\ arg[1]._version = _version /\ arg[1]._revision = _revision

\* The seconds in the ranges of the list ranges.
SecondsIn(ranges) == UNION {SeqRange(ranges[k]) : k \in 1..Len(ranges)}

\* C28: no second is both in a range of 'ascending' and in a range of
\* 'descending' of one call of profiles, the seconds at which the difference
\* of the rolling mean is no number (the edges of the window) included.
C28_AscendingDescendingDisjoint ==
    op = "profiles"
        => SecondsIn(ret.ascending) \cap SecondsIn(ret.descending) = {}

\* C29: FAAMFlight.set(v, r, f) succeeds and leaves the pins at (v, r, f)
\* whenever the flight holds a file of version v, revision r and frequency
\* f, whatever the pins were before the call.
C29_SetSucceeds ==
    [][(/\ op' = "flight_set"
        /\ arg'[1] # None /\ arg'[2] # None /\ arg'[3] # None
        /\ Has(flt_files, arg'[1], arg'[2], arg'[3]))
          => (err'.kind = "none" /\ FlightPins' = arg')]_vars

\* The revisions of the files held of extension ext.
RevisionsOfExt(ext) ==
    {_files[i]._revision : i \in {j \in 1..Len(_files) : _files[j]._ext = ext}}

\* C30: after add_file calls on the flight-summary accessor the extension
\* pin is 'csv' if a csv file was added and 'txt' if none was, the revision
\* pin is the greatest revision of the files of that extension, and the file
\* resolved has that extension and revision, also when a file of the other
\* extension has a greater revision.
C30_FltSumExtRevision ==
    (hook = "fltsum" /\ Len(_files) > 0)
        => /\ _ext = IF "csv" \in {_files[i]._ext : i \in 1..Len(_files)}
                     THEN "csv" ELSE "txt"
           /\ RevisionsOfExt(_ext) # {}
           /\ _revision = SetMax(RevisionsOfExt(_ext))
           /\ op = "file"
                 => /\ err.kind = "none"
                    /\ Len(ret) = 1
                    /\ ret[1]._ext = _ext
                    /\ ret[1]._revision = _revision

\* The file resolved is the csv file, the txt file added after it being of
\* a greater revision.
C30_Witness ==
    /\ hook = "fltsum" /\ op = "file"
    /\ Len(_files) = 2
    /\ _files[1]._ext = "csv" /\ _files[2]._ext = "txt"
    /\ _files[1]._revision < _files[2]._revision
    /\ ret = <<_files[1]>>

====
